---- MODULE Spec2Model ----
(***************************************************************************)
(* Model of experiments/hierarchical_baselines/nbs/                        *)
(* run_favorita_baselines.ipynb: FavoritaHierarchicalDataset, run_baselines *)
(* and the driver cell, over a file system of per-item folders.            *)
(*                                                                         *)
(* A data frame is a sequence of rows (records).  A frame with the default *)
(* RangeIndex carries the row label in the field idx; a frame indexed by   *)
(* unique_id (after set_index) has no idx field.  The value column y is    *)
(* carried along by every operation and is left out of the rows.           *)
(***************************************************************************)
EXTENDS Integers, Sequences, FiniteSets, TLC

\* ------------------------------------------------------------------ bounds
\* most rows of the dataset's long-format table
MaxRows == 4
\* dates are 1..MaxDs
MaxDs == 2
\* FavoritaInfo[dataset].horizon ranges over 1..MaxHorizon
MaxHorizon == 2
\* bootstrap seeds of a modelled reconciliation (num_seeds in the call)
MaxSeeds == 2
\* executions of the driver cell
MaxRuns == 2

\* ------------------------------------------------------- program constants
available_datasets == {"Favorita200", "Favorita500", "FavoritaComplete"}

IntervalsMethods == {"bootstrap", "normality", "permbu"}

\* for item_id in [112830, 1916577]
DriverItems == <<112830, 1916577>>

\* run_baselines(intervals_method, item_id=1916577, dataset='Favorita200', ...)
DefaultItemId == 1916577

DefaultDataset == "Favorita200"

\* the missing value pandas puts for an id outside the categories
NaN == "NaN"

Null == <<>>

\* ------------------------------------------------------------ frame helpers
Range(s) == {s[i] : i \in 1..Len(s)}

\* df[mask]: the rows of df at the positions where the boolean mask holds,
\* in df's order
Mask(df, mask) ==
    LET f[n \in 0..Len(df)] ==
            IF n = 0 THEN <<>>
            ELSE IF mask[n] THEN Append(f[n-1], df[n]) ELSE f[n-1]
    IN f[Len(df)]

\* the order of two rows' sort keys, column after column
KeyLess(a, b) ==
    \E k \in 1..Len(a) : a[k] < b[k] /\ \A j \in 1..(k-1) : a[j] = b[j]

\* the rows of a sequence of <<key, row>> pairs
RowsOf(pairs) == [p \in 1..Len(pairs) |-> pairs[p][2]]

\* DataFrame.sort_values: the rows in ascending order of their keys (keys[i]
\* holds the by-columns of row i), rows of equal keys in frame order
sort_values(df, keys) ==
    LET ins(s, x) ==
            LET i == Cardinality({j \in 1..Len(s) : ~KeyLess(x[1], s[j][1])})
            IN SubSeq(s, 1, i) \o <<x>> \o SubSeq(s, i+1, Len(s))
        f[n \in 0..Len(df)] ==
            IF n = 0 THEN <<>> ELSE ins(f[n-1], <<keys[n], df[n]>>)
    IN RowsOf(f[Len(df)])

\* Index.get_indexer for one label: its 0-based position, -1 when absent
get_loc(index, id) ==
    IF \E i \in 1..Len(index) : index[i] = id
    THEN (CHOOSE i \in 1..Len(index) : index[i] = id) - 1
    ELSE -1

\* S_df.index.get_indexer(target)
get_indexer(index, target) == [j \in 1..Len(target) |-> get_loc(index, target[j])]

\* astype('category') then cat.set_categories(S_df.index): a value outside the
\* categories becomes NaN
set_categories(df, index) ==
    [i \in 1..Len(df) |->
        [df[i] EXCEPT !.unique_id =
            IF get_loc(index, df[i].unique_id) = -1 THEN NaN ELSE df[i].unique_id]]

\* the key of a sort that keeps the ids' own lexicographic order, the order
\* _sort_hier_df is there to replace
cat_code_lexicographic(index, id) ==
    IF \E i \in 1..3 : <<"C", "C/s1", "C/s2">>[i] = id
    THEN CHOOSE i \in 1..3 : <<"C", "C/s1", "C/s2">>[i] = id
    ELSE 4

\* the sort key of a categorical value: its category code, NaN last
cat_code(index, id) ==
    IF get_loc(index, id) = -1 THEN Len(index) ELSE get_loc(index, id)

\* by=['unique_id', 'ds'] on the categorical unique_id
by_id_ds(df, index) ==
    [i \in 1..Len(df) |-> <<cat_code(index, df[i].unique_id), df[i].ds>>]

\* by=['seed', 'unique_id', 'ds']
by_seed_id_ds(df, index) ==
    [i \in 1..Len(df) |->
        <<df[i].seed, cat_code(index, df[i].unique_id), df[i].ds>>]

\* FavoritaHierarchicalDataset._sort_hier_df
_sort_hier_df(Y_df_, S_index) ==
    sort_values(set_categories(Y_df_, S_index), by_id_ds(Y_df_, S_index))

\* S_df.values handed on without the transpose
NoTranspose(M, ncols) == M

\* the transpose S_df.values.T of a matrix given as a sequence of rows
Transpose(M, ncols) == [c \in 1..ncols |-> [r \in 1..Len(M) |-> M[r][c]]]

\* np.nonzero(v)[0]: the 0-based positions of the nonzero entries, ascending
nonzero(v) ==
    Mask([i \in 1..Len(v) |-> i - 1], [i \in 1..Len(v) |-> v[i] # 0])

\* FavoritaHierarchicalDataset._nonzero_indexes_by_row
_nonzero_indexes_by_row(M) == [row \in 1..Len(M) |-> nonzero(M[row])]

\* np.arange(n)
arange(n) == [i \in 1..n |-> i - 1]

\* DataFrame.reset_index on a frame indexed by unique_id: unique_id becomes a
\* column again under a new RangeIndex
reset_index(df) ==
    [i \in 1..Len(df) |->
        IF "seed" \in DOMAIN df[i]
        THEN [idx |-> i - 1, seed |-> df[i].seed,
              unique_id |-> df[i].unique_id, ds |-> df[i].ds]
        ELSE [idx |-> i - 1, unique_id |-> df[i].unique_id, ds |-> df[i].ds]]

\* DataFrame.set_index('unique_id'): the row labels are dropped
set_index(df) ==
    [i \in 1..Len(df) |->
        IF "seed" \in DOMAIN df[i]
        THEN [seed |-> df[i].seed, unique_id |-> df[i].unique_id, ds |-> df[i].ds]
        ELSE [unique_id |-> df[i].unique_id, ds |-> df[i].ds]]

\* DataFrame.to_csv(file, index=False): the columns without the index
to_csv(df) == set_index(df)

\* pd.read_csv(file): the columns under a new RangeIndex
read_csv(csv) == reset_index(csv)

\* groupby('unique_id').head(horizon): the first rows of every group
groupby_head(df, h) ==
    Mask(df, [i \in 1..Len(df) |->
                 /\ df[i].unique_id # NaN
                 /\ Cardinality({j \in 1..(i-1) :
                                   df[j].unique_id = df[i].unique_id}) < h])

\* Y_df.groupby('unique_id').tail(horizon): the last horizon rows of every
\* group in frame order; rows whose key is NaN belong to no group
groupby_tail(df, h) ==
    Mask(df, [i \in 1..Len(df) |->
                 /\ df[i].unique_id # NaN
                 /\ Cardinality({j \in (i+1)..Len(df) :
                                   df[j].unique_id = df[i].unique_id}) < h])

\* Y_df.drop(labels): the rows whose label is not among labels
drop(df, labels) == Mask(df, [i \in 1..Len(df) |-> df[i].idx \notin labels])

\* FavoritaHierarchicalDataset.load_item_data on the loaded dataset d
load_item_data(d, item_id) ==
    LET all == [i \in 1..Len(d.Y_df) |->
                  [idx |-> i - 1, item_id |-> d.Y_df[i].item_id,
                   unique_id |-> d.Y_df[i].hier_id, ds |-> d.Y_df[i].ds]]
    IN [Y_df |-> _sort_hier_df(
                     Mask(all, [i \in 1..Len(all) |-> all[i].item_id = item_id]),
                     d.S_index),
        S_index |-> d.S_index,
        S_values |-> d.S_values,
        tags |-> d.tags,
        hier_levels |-> <<"Overall">> \o [k \in 1..Len(d.tags) |-> d.tags[k].key],
        hier_idxs |-> <<arange(Len(d.S_index))>> \o
                      [k \in 1..Len(d.tags) |-> get_indexer(d.S_index, d.tags[k].ids)],
        hier_linked_idxs |->
            _nonzero_indexes_by_row(Transpose(d.S_values, Len(d.S_columns))),
        horizon |-> d.horizon]

\* data['Y_df'][["unique_id", 'ds', 'y']]
select_columns(df) ==
    [i \in 1..Len(df) |->
        [idx |-> df[i].idx, unique_id |-> df[i].unique_id, ds |-> df[i].ds]]

\* the train/test split of run_baselines, before set_index
split_test(Y_df_, horizon) == groupby_tail(Y_df_, horizon)

split_train(Y_df_, horizon) ==
    drop(Y_df_, {r.idx : r \in Range(split_test(Y_df_, horizon))})

\* ------------------------------------------------- the external libraries
\* the series ids of the hierarchy: the country and two of its stores
SeriesIds == {"C", "C/s1", "C/s2"}

\* the ids in lexicographic order, the order the forecasting library may sort by
LexOrder == <<"C", "C/s1", "C/s2">>

Reverse(s) == [i \in 1..Len(s) |-> s[Len(s) + 1 - i]]

\* the orders in which a library may return the series of a frame
LibraryOrders == {LexOrder, Reverse(LexOrder)}

\* the ids of df in the order ord
ids_in_order(df, ord) ==
    Mask(ord, [i \in 1..Len(ord) |-> \E r \in Range(df) : r.unique_id = ord[i]])

last_ds(df, id) ==
    CHOOSE d \in {r.ds : r \in Range(df)} :
        /\ \E r \in Range(df) : r.unique_id = id /\ r.ds = d
        /\ \A r \in Range(df) : r.unique_id = id => r.ds <= d

\* fcst.forecast(h=horizon, ...): h future dates for every series of the
\* training frame, the series in the library's order, indexed by unique_id
StatsForecast_forecast(Y_train, h, ord) ==
    LET ids == ids_in_order(Y_train, ord)
    IN [n \in 1..(Len(ids) * h) |->
           [unique_id |-> ids[((n - 1) \div h) + 1],
            ds |-> last_ds(Y_train, ids[((n - 1) \div h) + 1]) + ((n - 1) % h) + 1]]

\* fcst.forecast_fitted_values(): one row for every training row, the series
\* in the library's order, indexed by unique_id
StatsForecast_fitted(Y_train, ord) ==
    sort_values(Y_train,
                [i \in 1..Len(Y_train) |->
                    <<get_loc(ord, Y_train[i].unique_id), Y_train[i].ds>>])

\* hrec.bootstrap_reconcile(...): the rows of Y_hat_df once for every seed,
\* either seed after seed or series after series, indexed by unique_id
bootstrap_reconcile(Y_hat, seed_major) ==
    LET n == Len(Y_hat)
        row(s, i) == [seed |-> s, unique_id |-> Y_hat[i].unique_id, ds |-> Y_hat[i].ds]
    IN [k \in 1..(n * MaxSeeds) |->
           IF seed_major THEN row((k - 1) \div n, ((k - 1) % n) + 1)
           ELSE row((k - 1) % MaxSeeds, ((k - 1) \div MaxSeeds) + 1)]

\* the reconcilers of the strict branch whatever the hierarchy
reconcilers_always_strict(strict) ==
    <<"BottomUp", "TopDown(average_proportions)", "TopDown(proportion_averages)",
      "MinTrace(ols)", "MinTrace(mint_shrink)", "ERM(closed)">>

\* the reconcilers run_baselines hands to HierarchicalReconciliation
reconcilers_for(strict) ==
    IF strict
    THEN <<"BottomUp", "TopDown(average_proportions)", "TopDown(proportion_averages)",
           "MinTrace(ols)", "MinTrace(mint_shrink)", "ERM(closed)">>
    ELSE <<"BottomUp", "MinTrace(ols)", "MinTrace(mint_shrink)", "ERM(closed)">>

\* ------------------------------------------------------------ the file system
\* f'./data/{dataset}': the item id left out of the folder
item_path_without_item(dataset_, item_id) == <<"data", dataset_>>

\* f'./data/{dataset}/{item_id}'
item_path(dataset_, item_id) == <<"data", dataset_, ToString(item_id)>>

\* f'{item_path}/Y_hat.csv'
yhat_file(path) == path \o <<"Y_hat.csv">>

\* f'{item_path}/Y_fitted.csv'
yfitted_file(path) == path \o <<"Y_fitted.csv">>

\* f'{item_path}/{intervals_method}_rec.csv'
yrec_file(path, method) == path \o <<method, "_rec.csv">>

\* os.path.exists
path_exists(files, file) == file \in DOMAIN files

\* os.makedirs(path, exist_ok=True): the directory and its missing parents
makedirs(ds_, path) == ds_ \cup {SubSeq(path, 1, n) : n \in 1..Len(path)}

\* DataFrame.to_csv(file): the file is created or replaced
write_file(files, file, content) ==
    [f \in DOMAIN files \cup {file} |-> IF f = file THEN content ELSE files[f]]

\* ---------------------------------------------------------------- datasets
\* What FavoritaData.load(directory, group) returns, with FavoritaInfo[group]:
\*   Y_df      the long table, rows [item_id, hier_id, ds] under a RangeIndex
\*   S_index   S_df.index, the series ids in the rows' order
\*   S_columns S_df.columns, the bottom series
\*   S_values  S_df.values, a sequence of rows
\*   tags      the ordered dict level -> ids, a sequence of [key, ids]
\*   horizon   FavoritaInfo[group].horizon
\*   strict    what is_strictly_hierarchical answers for S_df and tags
StoreColumns == <<"C/s1", "C/s2">>

GeoTags ==
    <<[key |-> "Country", ids |-> <<"C">>],
      [key |-> "Country/Store", ids |-> <<"C/s1", "C/s2">>]>>

\* the summation row of a series over StoreColumns
SummingRow(id) ==
    [c \in 1..Len(StoreColumns) |->
        IF id = "C" \/ id = StoreColumns[c] THEN 1 ELSE 0]

SummingMatrix(index) == [i \in 1..Len(index) |-> SummingRow(index[i])]

\* the dataset on disk in ./data/favorita for each group
StoredDataset(group) ==
    IF group = "Favorita200"
    THEN [Y_df |-> <<[item_id |-> 1916577, hier_id |-> "C/s1", ds |-> 2],
                     [item_id |-> 112830, hier_id |-> "C", ds |-> 1],
                     [item_id |-> 1916577, hier_id |-> "C/s1", ds |-> 1],
                     [item_id |-> 112830, hier_id |-> "C", ds |-> 2],
                     [item_id |-> 1916577, hier_id |-> "C", ds |-> 1]>>,
          S_index |-> LexOrder, S_columns |-> StoreColumns,
          S_values |-> SummingMatrix(LexOrder),
          tags |-> GeoTags, horizon |-> 1, strict |-> TRUE]
    ELSE IF group = "Favorita500"
    THEN [Y_df |-> <<[item_id |-> 112830, hier_id |-> "C/s2", ds |-> 2],
                     [item_id |-> 112830, hier_id |-> "C", ds |-> 1],
                     [item_id |-> 112830, hier_id |-> "C/s2", ds |-> 1],
                     [item_id |-> 112830, hier_id |-> "C", ds |-> 2]>>,
          S_index |-> Reverse(LexOrder), S_columns |-> StoreColumns,
          S_values |-> SummingMatrix(Reverse(LexOrder)),
          tags |-> GeoTags, horizon |-> 1, strict |-> FALSE]
    ELSE [Y_df |-> <<[item_id |-> 112830, hier_id |-> "C/s1", ds |-> 1],
                     [item_id |-> 1916577, hier_id |-> "C", ds |-> 2],
                     [item_id |-> 1916577, hier_id |-> "C", ds |-> 1],
                     [item_id |-> 112830, hier_id |-> "C/s1", ds |-> 2]>>,
          S_index |-> LexOrder, S_columns |-> StoreColumns,
          S_values |-> SummingMatrix(LexOrder),
          tags |-> GeoTags, horizon |-> 2, strict |-> TRUE]

\* ------------------------------------------------------------------- state
VARIABLES
    disk,              \* group -> the dataset FavoritaData.load returns
    fs,                \* file path -> csv content
    dirs,              \* the directories that exist
    pc,                \* the statement the notebook is at
    runs,              \* executions of the driver cell so far
    intervals_method,  \* driver cell: intervals_method
    dataset,           \* driver cell: dataset
    next_item,         \* driver cell: position of the for loop in DriverItems
    loads,             \* FavoritaData.load calls in this execution of the cell
    calls,             \* run_baselines calls in this execution of the cell
    returned,          \* driver cell: what the last run_baselines returned
    args,              \* run_baselines: its arguments
    data,              \* run_baselines: what load_item_data returned
    Y_df,              \* run_baselines locals
    Y_test_df,
    Y_train_df,
    Y_hat_df,
    Y_fitted_df,
    Y_rec_df,
    reconcilers,
    from_cache,        \* the outcome of os.path.exists(yhat_file)
    completed,         \* item folders for which run_baselines has returned
    refit              \* completed item folders the forecaster ran for again

env == <<disk>>

files == <<fs, dirs>>

driver == <<runs, intervals_method, dataset, next_item>>

counters == <<loads, calls>>

frames == <<Y_df, Y_test_df, Y_train_df, Y_hat_df, Y_fitted_df, Y_rec_df>>

locals == <<data, frames, reconcilers, from_cache>>

history == <<completed, refit>>

vars == <<env, files, pc, driver, counters, returned, args, locals, history>>

\* the statements of run_baselines
RunPcs ==
    {"read_parse", "fit_predict", "cache_read", "forecast", "write_yhat",
     "write_yfitted", "reconcile", "align", "return"}

\* the states in which no cell is executing
RestPcs == {"idle", "done", "failed", "raised", "stopped"}

\* the frame of run_baselines is gone
ClearLocals ==
    /\ args' = Null
    /\ data' = Null
    /\ Y_df' = <<>>
    /\ Y_test_df' = <<>>
    /\ Y_train_df' = <<>>
    /\ Y_hat_df' = <<>>
    /\ Y_fitted_df' = <<>>
    /\ Y_rec_df' = <<>>
    /\ reconcilers' = <<>>
    /\ from_cache' = FALSE

InitRest ==
    /\ dirs = {<<"data">>, <<"data", "favorita">>}
    /\ pc = "idle"
    /\ runs = 0
    /\ intervals_method = "bootstrap"
    /\ dataset = "Favorita200"
    /\ next_item = 1
    /\ loads = 0
    /\ calls = 0
    /\ returned = Null
    /\ args = Null
    /\ data = Null
    /\ Y_df = <<>>
    /\ Y_test_df = <<>>
    /\ Y_train_df = <<>>
    /\ Y_hat_df = <<>>
    /\ Y_fitted_df = <<>>
    /\ Y_rec_df = <<>>
    /\ reconcilers = <<>>
    /\ from_cache = FALSE
    /\ completed = {}
    /\ refit = {}

\* a fresh checkout: the datasets are on disk and no item folder exists
Init ==
    /\ disk = [g \in available_datasets |-> StoredDataset(g)]
    /\ fs = <<>>
    /\ InitRest

\* ------------------------------------------------------------ run_baselines
\* is_strictly_hierarchical(S=S_df.values..., tags={...}) on the loaded dataset
is_strictly_hierarchical(d) == d.strict

\* the test made on the dataset folder instead of the item folder
cache_hit_dataset_folder(files_, path) ==
    path_exists(files_, SubSeq(path, 1, 2) \o <<"Y_hat.csv">>)

\* if os.path.exists(yhat_file), for the item folder path
cache_hit(files_, path) == path_exists(files_, yhat_file(path))

ArgsPath == item_path(args.dataset, args.item_id)

\* with CodeTimer('Read and Parse data'): load_item_data and the train/test
\* split; FavoritaInfo[dataset] raises on an unknown group and
\* min(Y_test_df.ds) on an empty test frame
ReadAndParse ==
    /\ pc = "read_parse"
    /\ IF args.dataset \notin DOMAIN disk
       THEN /\ pc' = "raised"
            /\ ClearLocals
       ELSE LET d == load_item_data(disk[args.dataset], args.item_id)
                Y == select_columns(d.Y_df)
                test == split_test(Y, d.horizon)
                train == split_train(Y, d.horizon)
            IN IF Len(test) = 0
               THEN /\ pc' = "raised"
                    /\ ClearLocals
               ELSE /\ pc' = "fit_predict"
                    /\ data' = d
                    /\ Y_df' = Y
                    /\ Y_test_df' = set_index(test)
                    /\ Y_train_df' = set_index(train)
                    /\ UNCHANGED <<args, Y_hat_df, Y_fitted_df, Y_rec_df,
                                   reconcilers, from_cache>>
    /\ loads' = IF args.dataset \in DOMAIN disk THEN loads + 1 ELSE loads
    /\ UNCHANGED <<env, files, driver, calls, returned, history>>

\* os.makedirs(item_path, exist_ok=True) and the test for the cached forecast
FitPredictOpen ==
    /\ pc = "fit_predict"
    /\ dirs' = makedirs(dirs, ArgsPath)
    /\ from_cache' = cache_hit(fs, ArgsPath)
    /\ pc' = IF cache_hit(fs, ArgsPath) THEN "cache_read" ELSE "forecast"
    /\ UNCHANGED <<env, fs, driver, counters, returned, args, data, frames,
                   reconcilers, history>>

\* Y_hat_df = pd.read_csv(yhat_file); Y_fitted_df = pd.read_csv(yfitted_file)
CacheRead ==
    /\ pc = "cache_read"
    /\ IF path_exists(fs, yfitted_file(ArgsPath))
       THEN /\ Y_hat_df' = read_csv(fs[yhat_file(ArgsPath)])
            /\ Y_fitted_df' = read_csv(fs[yfitted_file(ArgsPath)])
            /\ pc' = "reconcile"
            /\ UNCHANGED <<args, data, Y_df, Y_test_df, Y_train_df, Y_rec_df,
                           reconcilers, from_cache>>
       ELSE /\ pc' = "raised"
            /\ ClearLocals
    /\ UNCHANGED <<env, files, driver, counters, returned, history>>

\* the else branch up to reset_index: the dataset folder is made when missing,
\* StatsForecast fits and forecasts
Forecast ==
    /\ pc = "forecast"
    /\ dirs' = IF <<"data", args.dataset>> \in dirs THEN dirs
               ELSE makedirs(dirs, <<"data", args.dataset>>)
    /\ \E ord \in LibraryOrders :
          /\ Y_hat_df' = reset_index(
                 StatsForecast_forecast(Y_train_df, data.horizon, ord))
          /\ Y_fitted_df' = reset_index(StatsForecast_fitted(Y_train_df, ord))
    /\ refit' = IF ArgsPath \in completed THEN refit \cup {ArgsPath} ELSE refit
    /\ pc' = "write_yhat"
    /\ UNCHANGED <<env, fs, driver, counters, returned, args, data, Y_df,
                   Y_test_df, Y_train_df, Y_rec_df, reconcilers, from_cache,
                   completed>>

\* Y_hat_df.to_csv(yhat_file, index=False)
WriteYhat ==
    /\ pc = "write_yhat"
    /\ fs' = write_file(fs, yhat_file(ArgsPath), to_csv(Y_hat_df))
    /\ pc' = "write_yfitted"
    /\ UNCHANGED <<env, dirs, driver, counters, returned, args, locals, history>>

\* Y_fitted_df.to_csv(yfitted_file, index=False)
WriteYfitted ==
    /\ pc = "write_yfitted"
    /\ fs' = write_file(fs, yfitted_file(ArgsPath), to_csv(Y_fitted_df))
    /\ pc' = "reconcile"
    /\ UNCHANGED <<env, dirs, driver, counters, returned, args, locals, history>>

\* set_index('unique_id') of both frames, the choice of the reconcilers and
\* hrec.bootstrap_reconcile
Reconcile ==
    /\ pc = "reconcile"
    /\ Y_hat_df' = set_index(Y_hat_df)
    /\ Y_fitted_df' = set_index(Y_fitted_df)
    /\ reconcilers' = reconcilers_for(is_strictly_hierarchical(disk[args.dataset]))
    /\ \E seed_major \in BOOLEAN :
          Y_rec_df' = bootstrap_reconcile(set_index(Y_hat_df), seed_major)
    /\ pc' = "align"
    /\ UNCHANGED <<env, files, driver, counters, returned, args, data, Y_df,
                   Y_test_df, Y_train_df, from_cache, history>>

\* Matching Y_test/Y_rec/S index ordering, then Y_rec_df.to_csv(yrec_file)
Align ==
    /\ pc = "align"
    /\ LET test == set_categories(reset_index(Y_test_df), data.S_index)
           cats == set_categories(reset_index(Y_rec_df), data.S_index)
           rec == sort_values(cats, by_seed_id_ds(cats, data.S_index))
       IN /\ Y_test_df' = sort_values(test, by_id_ds(test, data.S_index))
          /\ Y_rec_df' = rec
          /\ fs' = write_file(fs, yrec_file(ArgsPath, args.intervals_method),
                              to_csv(rec))
    /\ pc' = "return"
    /\ UNCHANGED <<env, dirs, driver, counters, returned, args, data, Y_df,
                   Y_train_df, Y_hat_df, Y_fitted_df, reconcilers, from_cache,
                   history>>

\* return Y_rec_df, Y_test_df, Y_train_df, to the cell that called
Return ==
    /\ pc = "return"
    /\ returned' = [Y_rec_df |-> Y_rec_df, Y_test_df |-> Y_test_df,
                    Y_train_df |-> Y_train_df]
    /\ completed' = completed \cup {ArgsPath}
    /\ pc' = IF args.caller = "driver" THEN "loop" ELSE "idle"
    /\ ClearLocals
    /\ UNCHANGED <<env, files, driver, counters, refit>>

\* an exception or a keyboard interrupt at any statement of run_baselines
Interrupt ==
    /\ pc \in RunPcs
    /\ pc' = "stopped"
    /\ ClearLocals
    /\ UNCHANGED <<env, files, driver, counters, returned, history>>

\* ------------------------------------------------------------ the driver cell
\* the values the execution parameters are set to
MethodChoices == IntervalsMethods \cup {"mcmc"}

DatasetChoices == available_datasets \cup {"M5"}

\* the dataset assertion left out
dataset_unchecked(d) == TRUE

method_ok(m) == m \in IntervalsMethods

dataset_ok(d) == d \in available_datasets

\* Parse execution parameters: the cell is executed
DriverStart ==
    /\ pc \in RestPcs
    /\ runs < MaxRuns
    /\ runs' = runs + 1
    /\ intervals_method' \in MethodChoices
    /\ dataset' \in DatasetChoices
    /\ next_item' = 1
    /\ loads' = 0
    /\ calls' = 0
    /\ pc' = "assert_method"
    /\ UNCHANGED <<env, files, returned, args, locals, history>>

\* assert intervals_method in ['bootstrap', 'normality', 'permbu']
AssertMethod ==
    /\ pc = "assert_method"
    /\ pc' = IF method_ok(intervals_method) THEN "assert_dataset" ELSE "failed"
    /\ UNCHANGED <<env, files, driver, counters, returned, args, locals, history>>

\* assert dataset in available_datasets
AssertDataset ==
    /\ pc = "assert_dataset"
    /\ pc' = IF dataset_ok(dataset) THEN "load" ELSE "failed"
    /\ UNCHANGED <<env, files, driver, counters, returned, args, locals, history>>

\* LEVEL, QUANTILES and FavoritaData.load(directory='./data/favorita/', ...)
DriverLoad ==
    /\ pc = "load"
    /\ loads' = loads + 1
    /\ pc' = "loop"
    /\ UNCHANGED <<env, files, driver, calls, returned, args, locals, history>>

\* for item_id in [112830, 1916577]: run_baselines(item_id=item_id, ...)
DriverLoop ==
    /\ pc = "loop"
    /\ IF next_item <= Len(DriverItems)
       THEN /\ args' = [intervals_method |-> intervals_method,
                        item_id |-> DriverItems[next_item],
                        dataset |-> dataset, caller |-> "driver"]
            /\ next_item' = next_item + 1
            /\ calls' = calls + 1
            /\ pc' = "read_parse"
       ELSE /\ pc' = "done"
            /\ UNCHANGED <<args, next_item, calls>>
    /\ UNCHANGED <<env, files, runs, intervals_method, dataset, loads, returned,
                   locals, history>>

Next ==
    \/ DriverStart
    \/ AssertMethod
    \/ AssertDataset
    \/ DriverLoad
    \/ DriverLoop
    \/ ReadAndParse
    \/ FitPredictOpen
    \/ CacheRead
    \/ Forecast
    \/ WriteYhat
    \/ WriteYfitted
    \/ Reconcile
    \/ Align
    \/ Return
    \/ Interrupt

Spec == Init /\ [][Next]_vars

\* ------------------------------------------- run_baselines over drawn inputs
Distinct(s) == \A i, j \in 1..Len(s) : i # j => s[i] # s[j]

Orderings(S) == {s \in [1..Cardinality(S) -> S] : Distinct(s)}

\* the observations of a drawn table: the default item's series at the country
\* and at one store, each on the dates 1..n of its length n, and possibly an
\* observation of another item
Observations(n_country, n_store, other) ==
    {[item_id |-> DefaultItemId, hier_id |-> "C", ds |-> d] : d \in 1..n_country}
    \cup {[item_id |-> DefaultItemId, hier_id |-> "C/s1", ds |-> d] : d \in 1..n_store}
    \cup (IF other
          THEN {[item_id |-> DriverItems[1], hier_id |-> "C/s1", ds |-> 1]}
          ELSE {})

\* the tables of at most MaxRows rows, the rows in any order
Tables ==
    UNION {Orderings(Observations(n[1], n[2], o)) :
             n \in {m \in (0..MaxDs) \X (0..MaxDs) : m[1] + m[2] <= MaxRows},
             o \in BOOLEAN}

\* drawn tables; S_df in lexicographic or in reverse order
FrameInputs ==
    {[Y_df |-> y, S_index |-> ix, S_columns |-> StoreColumns,
      S_values |-> SummingMatrix(ix), tags |-> GeoTags, horizon |-> h,
      strict |-> TRUE] :
        y \in {t \in Tables : Len(t) <= MaxRows},
        ix \in LibraryOrders,
        h \in 1..MaxHorizon}

\* the levels of a drawn hierarchy: the ids of a level in either order, the
\* levels in either order
TagInputs ==
    {GeoTags,
     <<[key |-> "Country", ids |-> <<"C">>],
       [key |-> "Country/Store", ids |-> <<"C/s2", "C/s1">>]>>,
     <<[key |-> "Country/Store", ids |-> <<"C/s1", "C/s2">>],
       [key |-> "Country", ids |-> <<"C">>]>>}

\* hierarchies: S_df.index in any order, any 0/1 summation matrix, either
\* answer of is_strictly_hierarchical
HierInputs ==
    {[Y_df |-> <<[item_id |-> DefaultItemId, hier_id |-> "C", ds |-> 2],
                 [item_id |-> DefaultItemId, hier_id |-> "C", ds |-> 1]>>,
      S_index |-> ix, S_columns |-> StoreColumns, S_values |-> m,
      tags |-> t, horizon |-> 1, strict |-> b] :
        ix \in Orderings(SeriesIds),
        m \in [1..Cardinality(SeriesIds) -> [1..Len(StoreColumns) -> {0, 1}]],
        t \in TagInputs,
        b \in BOOLEAN}

\* the item folder after an earlier run_baselines of the item on dataset d got
\* as far as both forecast files, the library having used the order ord
ForecastFiles(d, item_id, ord) ==
    LET Y == select_columns(load_item_data(d, item_id).Y_df)
        train == set_index(split_train(Y, d.horizon))
        path == item_path(DefaultDataset, item_id)
    IN write_file(
           write_file(<<>>, yhat_file(path),
                      StatsForecast_forecast(train, d.horizon, ord)),
           yfitted_file(path), StatsForecast_fitted(train, ord))

\* a drawn dataset stands for group Favorita200; the item folder is either
\* missing or holds the forecast files of an earlier run
InitData ==
    /\ \E d \in FrameInputs \cup HierInputs :
          /\ disk = [g \in available_datasets |->
                        IF g = DefaultDataset THEN d ELSE StoredDataset(g)]
          /\ \/ fs = <<>>
             \/ /\ Len(split_test(select_columns(
                           load_item_data(d, DefaultItemId).Y_df), d.horizon)) > 0
                /\ fs = ForecastFiles(d, DefaultItemId, LexOrder)
    /\ InitRest

\* a cell calls run_baselines(intervals_method=intervals_method), item_id and
\* dataset left to their defaults; one call is followed to its return
DirectCall ==
    /\ pc = "idle"
    /\ completed = {}
    /\ args' = [intervals_method |-> intervals_method, item_id |-> DefaultItemId,
                dataset |-> DefaultDataset, caller |-> "cell"]
    /\ pc' = "read_parse"
    /\ UNCHANGED <<env, files, driver, counters, returned, locals, history>>

NextData ==
    \/ DirectCall
    \/ ReadAndParse
    \/ FitPredictOpen
    \/ CacheRead
    \/ Forecast
    \/ WriteYhat
    \/ WriteYfitted
    \/ Reconcile
    \/ Align
    \/ Return

SpecData == InitData /\ [][NextData]_vars

\* ================================================================== claims
\* the dates of the rows of series u in df, in frame order
DatesOf(df, u) ==
    LET rows == Mask(df, [i \in 1..Len(df) |-> df[i].unique_id = u])
    IN [i \in 1..Len(rows) |-> rows[i].ds]

Min(a, b) == IF a <= b THEN a ELSE b

AfterSplit == pc \in RunPcs \ {"read_parse"}

\* C1: after the split, for every series of Y_df with n rows, Y_test_df holds
\* exactly its last min(horizon, n) rows in ascending ds order and Y_train_df
\* exactly its other rows; the two frames share no row and together hold
\* every row of Y_df exactly once.
C1_TrainTestSplit ==
    AfterSplit =>
        /\ Len(Y_test_df) + Len(Y_train_df) = Len(Y_df)
        /\ \A r \in Range(Y_test_df) \cup Range(Y_train_df) :
              \E q \in Range(Y_df) : q.unique_id = r.unique_id /\ q.ds = r.ds
        /\ \A u \in {r.unique_id : r \in Range(Y_df)} :
              LET obs == {r.ds : r \in {q \in Range(Y_df) : q.unique_id = u}}
                  test == DatesOf(Y_test_df, u)
                  train == DatesOf(Y_train_df, u)
              IN /\ Len(test) = Min(data.horizon, Cardinality(obs))
                 /\ \A i \in 1..Len(test) :
                       Cardinality({d \in obs : d > test[i]}) = Len(test) - i
                 /\ Len(train) = Cardinality(obs) - Len(test)
                 /\ Range(train) = obs \ Range(test)

\* C1 witness: two series are split, one of them longer than the horizon,
\* from a table that was not in ds order
C1_Witness ==
    /\ pc = "fit_predict"
    /\ Len(Y_train_df) >= 1
    /\ Cardinality({r.unique_id : r \in Range(Y_test_df)}) = 2
    /\ \E i, j \in 1..Len(disk[DefaultDataset].Y_df) :
          /\ i < j
          /\ disk[DefaultDataset].Y_df[i].hier_id = disk[DefaultDataset].Y_df[j].hier_id
          /\ disk[DefaultDataset].Y_df[i].ds > disk[DefaultDataset].Y_df[j].ds

\* the position of a series in S_df.index
PositionIn(index, id) == CHOOSE k \in 1..Len(index) : index[k] = id

\* rows in the order of S_df.index and, within a series, in ascending ds
SeriesThenDate(index, a, b) ==
    \/ PositionIn(index, a.unique_id) < PositionIn(index, b.unique_id)
    \/ /\ a.unique_id = b.unique_id
       /\ a.ds < b.ds

CanonicalOrder(df, index) ==
    \A i \in 1..(Len(df) - 1) : SeriesThenDate(index, df[i], df[i+1])

CanonicalOrderBySeed(df, index) ==
    \A i \in 1..(Len(df) - 1) :
        \/ df[i].seed < df[i+1].seed
        \/ /\ df[i].seed = df[i+1].seed
           /\ SeriesThenDate(index, df[i], df[i+1])

C3_ReconcilerSet ==
    pc \in {"align", "return"} =>
        /\ "TopDown(average_proportions)" \in Range(reconcilers)
              <=> disk[args.dataset].strict
        /\ "TopDown(proportion_averages)" \in Range(reconcilers)
              <=> disk[args.dataset].strict
        /\ {"BottomUp", "MinTrace(ols)", "MinTrace(mint_shrink)", "ERM(closed)"}
              \subseteq Range(reconcilers)

\* C3 witness: the reconcilers were chosen for a hierarchy that is not strict
C3_Witness ==
    /\ pc = "align"
    /\ ~disk[args.dataset].strict
    /\ Len(reconcilers) = 4

\* C7: hier_levels is 'Overall' and then the keys of tags in order; hier_idxs
\* is as long; hier_idxs[0] is 0..len(S_df)-1; every position of a level is
\* the position in S_df.index of the corresponding id of tags, none is -1;
\* hier_linked_idxs has one entry for every column of S_df, the rows whose
\* entry in the column is nonzero.
C7_HierarchyIndexes ==
    AfterSplit =>
        LET d == disk[args.dataset]
            n == Len(d.S_index)
        IN /\ Len(data.hier_levels) = Len(d.tags) + 1
           /\ data.hier_levels[1] = "Overall"
           /\ \A k \in 1..Len(d.tags) : data.hier_levels[k+1] = d.tags[k].key
           /\ Len(data.hier_idxs) = Len(data.hier_levels)
           /\ Len(data.hier_idxs[1]) = n
           /\ \A i \in 1..n : data.hier_idxs[1][i] = i - 1
           /\ \A k \in 1..Len(d.tags) :
                 /\ Len(data.hier_idxs[k+1]) = Len(d.tags[k].ids)
                 /\ \A j \in 1..Len(d.tags[k].ids) :
                       /\ data.hier_idxs[k+1][j] \in 0..(n - 1)
                       /\ d.S_index[data.hier_idxs[k+1][j] + 1] = d.tags[k].ids[j]
           /\ Len(data.hier_linked_idxs) = Len(d.S_columns)
           /\ \A c \in 1..Len(data.hier_linked_idxs) :
                 /\ c <= Len(d.S_columns)
                 /\ Range(data.hier_linked_idxs[c]) =
                       {r - 1 : r \in {q \in 1..n : d.S_values[q][c] # 0}}
                 /\ Len(data.hier_linked_idxs[c]) =
                       Cardinality(Range(data.hier_linked_idxs[c]))

\* C7 witness: S_df.index is not in the order of the tags, and the two
\* bottom series are linked to different rows
C7_Witness ==
    /\ pc = "fit_predict"
    /\ disk[args.dataset].S_index[1] = "C/s2"
    /\ disk[args.dataset].tags[1].key = "Country/Store"
    /\ Len(data.hier_linked_idxs[1]) = 2
    /\ data.hier_linked_idxs[1] # data.hier_linked_idxs[2]

\* the folder ./data/<dataset>/<item_id> of the running call, spelled out
CallFolder == <<"data", args.dataset, ToString(args.item_id)>>

\* C2: once run_baselines has completed for a (dataset, item_id), a later
\* call for it, with any intervals_method, reads Y_hat.csv and Y_fitted.csv
\* from the item folder and does not invoke the forecaster again; the
\* forecaster is invoked only when Y_hat.csv does not exist.
C2_ForecastCached ==
    /\ refit = {}
    /\ pc = "forecast" => (CallFolder \o <<"Y_hat.csv">>) \notin DOMAIN fs
    /\ (pc \in {"cache_read", "forecast", "write_yhat", "write_yfitted",
                "reconcile"} /\ CallFolder \in completed) =>
          /\ pc \in {"cache_read", "reconcile"}
          /\ (CallFolder \o <<"Y_hat.csv">>) \in DOMAIN fs
          /\ (CallFolder \o <<"Y_fitted.csv">>) \in DOMAIN fs
          /\ pc = "reconcile" =>
                /\ set_index(Y_hat_df) = fs[CallFolder \o <<"Y_hat.csv">>]
                /\ set_index(Y_fitted_df) = fs[CallFolder \o <<"Y_fitted.csv">>]

\* C2 witness: a call for a completed item folder, with an intervals_method
\* no call has used for it, has read both files
C2_Witness ==
    /\ pc = "reconcile"
    /\ CallFolder \in completed
    /\ (CallFolder \o <<args.intervals_method, "_rec.csv">>) \notin DOMAIN fs
    /\ Len(Y_hat_df) > 0
    /\ Len(Y_fitted_df) > 0

\* the files of the item folder that are neither of the forecast files nor
\* a reconciled file
OtherFiles(folder) ==
    {f \in DOMAIN fs :
        /\ SubSeq(f, 1, 3) = folder
        /\ f \notin {folder \o <<"Y_hat.csv">>, folder \o <<"Y_fitted.csv">>}
        /\ \A m \in MethodChoices : f # folder \o <<m, "_rec.csv">>}

\* C5: after run_baselines has completed for an item, the item's folder holds
\* a file for the reconciled forecasts, one for the test subset and one for
\* the train subset.
C5_SavesRecTestTrain ==
    (pc = "loop" /\ next_item > 1) =>
        LET folder == <<"data", dataset, ToString(DriverItems[next_item - 1])>>
        IN /\ (folder \o <<intervals_method, "_rec.csv">>) \in DOMAIN fs
           /\ Cardinality(OtherFiles(folder)) >= 2

ParametersInvalid ==
    \/ intervals_method \notin {"bootstrap", "normality", "permbu"}
    \/ dataset \notin {"Favorita200", "Favorita500", "FavoritaComplete"}

\* C6: when intervals_method or dataset is not one of the accepted values the
\* driver cell stops at an assertion: run_baselines is not called, no dataset
\* is loaded and no file or directory is created.
C6_ValidatesFirst ==
    [][ParametersInvalid' =>
          /\ pc' \in {"assert_method", "assert_dataset", "failed"}
          /\ calls' = 0
          /\ loads' = 0
          /\ fs' = fs
          /\ dirs' = dirs]_vars

\* C6 witness: the cell, executed a second time, has stopped at the dataset
\* assertion, item folders of the first execution being on disk
C6_Witness ==
    /\ pc = "failed"
    /\ intervals_method \in {"bootstrap", "normality", "permbu"}
    /\ dataset = "M5"
    /\ completed # {}

\* the file f is the same before and after the step
SameFile(f) ==
    /\ f \in DOMAIN fs <=> f \in DOMAIN fs'
    /\ f \in DOMAIN fs => fs'[f] = fs[f]

C9_YhatImpliesYfitted ==
    pc \in {"fit_predict", "cache_read"} =>
        ((CallFolder \o <<"Y_hat.csv">>) \in DOMAIN fs
            => (CallFolder \o <<"Y_fitted.csv">>) \in DOMAIN fs)

====
